---- MODULE Spec2Model ----
(***************************************************************************)
(* MedDrone Operations Center (src/app.js): the session controller, the    *)
(* navigation controller, the fetch wrappers with their cache, the page    *)
(* initializers, the interval timers and the chart registry, as one state  *)
(* machine over the browser's event loop.                                  *)
(*                                                                         *)
(* One step of the machine is one task of the event loop together with the *)
(* microtasks it triggers: a user event, a timer callback, or the arrival  *)
(* of one network response followed by the continuations that become       *)
(* runnable with it.  Pending timeouts and in-flight asynchronous calls    *)
(* are the bag `tasks`; they are taken out in any order, because the       *)
(* delays of independent timers and of the network are not ordered.        *)
(*                                                                         *)
(* dom.kpiShown is the numbers the four KPI elements show and             *)
(* dom.kpiUnits the elements whose text ends with its unit ("%", " min"); *)
(* they are written by the count-up animation, by the periodic refresh     *)
(* and by the local simulation.  The animation (animateValue and the snap  *)
(* timeouts, app.js 114-137 and 358-377) is there at two grains:           *)
(* DashSettles takes it by its end, which it reaches 1.9 s after           *)
(* initializeDashboard and so before the first tick of the 5 s refresh;    *)
(* DashSettlesFramed schedules its frames and its snap timeouts as tasks   *)
(* of their own, which then run in any order.                              *)
(***************************************************************************)
EXTENDS Integers, Sequences, FiniteSets, Bags, TLC

(* ------------------------------------------------------------------ *)
(* Bounds                                                              *)
(* ------------------------------------------------------------------ *)

\* Most timeouts and in-flight asynchronous calls pending at one time.
MaxTasks == 3

\* Most user inputs, timer ticks and calls from outside in one run.
MaxInputs == 3

(* ------------------------------------------------------------------ *)
(* Program constants                                                   *)
(* ------------------------------------------------------------------ *)

\* appData.demo_users: the fallback credential table.
demo_users ==
  [admin     |-> [password |-> "admin123",   role |-> "Administrator",
                  full_name |-> "System Administrator"],
   fleet_mgr |-> [password |-> "fleet123",   role |-> "Fleet Manager",
                  full_name |-> "Fleet Operations Manager"],
   medical   |-> [password |-> "medical123", role |-> "Medical Coordinator",
                  full_name |-> "Medical Supply Coordinator"],
   demo      |-> [password |-> "demo123",    role |-> "Observer",
                  full_name |-> "Demo User"]]

\* appData.kpi_data as the script defines it; success_rate and
\* avg_delivery_time are kept in tenths (94.5 is 945, 12.3 is 123).
DefaultKpi ==
  [total_drones |-> 15, active_missions |-> 8,
   success_rate |-> 945, avg_delivery_time |-> 123]

\* let currentUser = null
NoUser == [null |-> TRUE]

Pages == {"dashboard", "fleet", "analytics", "inventory", "maintenance", "tracking"}

\* A page id for which the document has neither a page nor a nav item.
UnknownPage == "settings"

ChartKeys == {"fleetStatus", "successRate", "deliveryTime", "utilization",
              "missionDistribution", "componentHealth"}

NoCharts == [c \in ChartKeys |-> 0]

NoIntervals == [dashboard |-> 0, tracking |-> 0]

\* The handle of the 30 s label timer, the first timer the script creates.
GlobalTimer == 1

(* ------------------------------------------------------------------ *)
(* The environment: what the user types and what the backend answers   *)
(* ------------------------------------------------------------------ *)

\* What a user types into the username and the password field.
Attempts ==
  { <<"admin", "admin123">>, <<"fleet_mgr", "fleet123">>,
    <<"medical", "medical123">>, <<"demo", "demo123">>,
    <<" demo ", "demo123">>, <<"Demo", "demo123">>, <<"demo", "Demo123">>,
    <<"admin", "demo123">>, <<"guest", "guest">>, <<"demo", "  ">>,
    <<"", "">> }

\* String.prototype.trim on the strings of Attempts.
Trim(s) ==
  CASE s = " demo " -> "demo"
    [] s = "  "     -> ""
    [] OTHER        -> s

\* The accounts of the backend (README, Demo Credentials).
BackendAccounts ==
  [admin     |-> [password |-> "admin123",   role |-> "Administrator"],
   fleet_mgr |-> [password |-> "fleet123",   role |-> "Fleet Manager"],
   medical   |-> [password |-> "medical123", role |-> "Medical Coordinator"],
   demo      |-> [password |-> "demo123",    role |-> "Observer"]]

\* response.user of a granted POST /login.
BackendUser(u) ==
  [username |-> u, full_name |-> demo_users[u].full_name,
   role |-> BackendAccounts[u].role]

\* The answers POST /login can give to (u, p): a transport failure or a
\* non-2xx status ("error"), a 2xx body without success ("denied"), or a
\* 2xx body with success and the user ("granted").
LoginResponses(u, p) ==
  {"error", "denied"} \cup
  (IF u \in DOMAIN BackendAccounts /\ BackendAccounts[u].password = p
     THEN {"granted"} ELSE {})

\* Snapshots GET /dashboard/kpis can return.
KpiSnapshots ==
  { [total_drones |-> 16, active_missions |-> 9,
     success_rate |-> 951, avg_delivery_time |-> 118] }

\* The text "NaN", where the other texts of a KPI element are numbers in
\* tenths.
NaN == -1

\* Bodies of GET /dashboard/kpis that are JSON but lack the delivery time,
\* or both rates; the success rate of the first is 85.0.
PartialKpiSnapshots ==
  { [total_drones |-> 16, active_missions |-> 9, success_rate |-> 850],
    [total_drones |-> 16, active_missions |-> 9] }

\* Two drones; battery is kept in tenths of a percent (61% is 610).
Drone1 == [id |-> "LLA-001", status |-> "Active", battery |-> 610]

Drone2 == [id |-> "LLA-002", status |-> "Charging", battery |-> 300]

\* Snapshots GET /fleet/status can return.
FleetSnapshots == { <<Drone1>>, <<Drone1, Drone2>> }

Supply1 == [item_name |-> "Blood Bags", current_stock |-> 10,
            min_stock_level |-> 20, quality_status |-> "Low Stock"]

\* Snapshots GET /medical/inventory can return.
SupplySnapshots == { <<Supply1>> }

\* What fetch() settles with: a response, with its status and with what its
\* body is, or, with status 0, a rejection (the request did not complete).
Up == [status |-> 200, body |-> "json"]

Down == [status |-> 0, body |-> ""]

Responses ==
  { Up, Down,
    [status |-> 200, body |-> "html"], [status |-> 204, body |-> ""],
    [status |-> 299, body |-> "json"], [status |-> 300, body |-> "json"],
    [status |-> 404, body |-> "json"], [status |-> 500, body |-> "html"] }

\* A 200 whose JSON body lacks fields that the renderers read.
Partial == [status |-> 200, body |-> "jsonPartial"]

\* The bodies response.json() can parse.
JsonBodies == {"json", "jsonPartial"}

\* What apiRequest('/dashboard/kpis') returns when `response` is parsed.
KpiBodies(response) ==
  IF response.body = "jsonPartial" THEN PartialKpiSnapshots ELSE KpiSnapshots

\* The responses of a backend that is up and answers well, or is down.
UpOrDown == {Up, Down}

\* The event of a step in which no response arrives has this one.
NoResponse == [status |-> -1, body |-> ""]

\* The values Math.random() takes, in tenths: 0, 0.1 and 0.9.
RandomDraws == {0, 1, 9}


(* ------------------------------------------------------------------ *)
(* State                                                               *)
(* ------------------------------------------------------------------ *)

VARIABLES
  currentUser,      \* the session record, NoUser when logged out
  charts,           \* chart registry: key -> chart handle, 0 when absent
  updateIntervals,  \* timer registry: key -> interval handle, 0 when absent
  isInitialized,    \* initializeMainApp has run
  appData,          \* cache: kpi_data, drone_fleet, medical_supplies
  dom,              \* the document: visibility, form fields, pages, grids
  timers,           \* the running interval timers: handle -> callback
  liveCharts,       \* the charts created and not destroyed: handle -> canvas
  tasks,            \* bag of pending timeouts and in-flight async calls
  inputs,           \* number of user inputs, timer ticks and outside calls
  last              \* the event of the step just taken (history variable)

vars == <<currentUser, charts, updateIntervals, isInitialized, appData, dom,
          timers, liveCharts, tasks, inputs, last>>

\* A pending timeout or an in-flight asynchronous call.  k is its kind;
\* page, u, p and kd are the values its closure holds; kpi, fleet and inv
\* say which of its requests are pending; failed records that one of its
\* requests has failed, stale that a logout or a login has happened since
\* it was started.
Task(k) ==
  [k |-> k, page |-> "", u |-> "", p |-> "", kpi |-> "-", fleet |-> "-",
   inv |-> "-", kd |-> DefaultKpi, failed |-> FALSE, stale |-> FALSE,
   act |-> "", el |-> "", ended |-> 0]

\* The event a step records in `last`.
Ev(op) ==
  [op |-> op, u |-> "", p |-> "", resp |-> "", stale |-> FALSE,
   failed |-> FALSE, wrote |-> FALSE, anyFailed |-> FALSE,
   simulated |-> FALSE, response |-> NoResponse]

Add(b, t) == b (+) SetToBag({t})

Remove(b, t) == b (-) SetToBag({t})

Pending == BagToSet(tasks)

\* The bound on `tasks`: a step that schedules n more is taken only when
\* they fit.
Room(n) == BagCardinality(tasks) + n <= MaxTasks

\* The bound on `inputs`: the step is a user input, a timer tick or a call
\* from outside, and one more is allowed.
Input == inputs < MaxInputs /\ inputs' = inputs + 1

\* The step is the program's own: a timeout fires or a response arrives.
Own == UNCHANGED inputs

\* The kinds of task that await a network response.
AsyncKinds == {"login", "dash", "update", "fleetPage", "inventoryPage"}

\* A task as it is after a login/logout boundary: the calls in flight and
\* the delayed initializer of an earlier login were started before it.
Aged(t) == IF t.k \in AsyncKinds \cup {"tInitMainApp"}
             THEN [t EXCEPT !.stale = TRUE] ELSE t

\* Every pending task as it is after a login/logout boundary.
MarkStale(b) ==
  LET S == BagToSet(b)
      T == { Aged(t) : t \in S }
      Sum(t) == (IF t \in S THEN b[t] ELSE 0) +
                (IF t.stale /\ [t EXCEPT !.stale = FALSE] \in S
                   THEN b[[t EXCEPT !.stale = FALSE]] ELSE 0)
  IN  [t \in T |-> Sum(t)]

Min(S) == CHOOSE x \in S : \A y \in S : x <= y

Range(f) == { f[x] : x \in DOMAIN f }

\* The handle setInterval returns for a timer running `callback`: one
\* that no running timer and no registry entry holds.  Handles are opaque;
\* the first free one from the callback's own number on is taken.
TimerBase(callback) ==
  CASE callback = "global" -> 1 [] callback = "dashboard" -> 2 [] OTHER -> 3

NewTimer(running, registry, callback) ==
  Min((TimerBase(callback) .. Cardinality(DOMAIN running) + 4)
        \ (DOMAIN running \cup Range(registry)))

\* setInterval(callback, ...): `running` with the new timer h in it.
SetTimer(running, h, callback) ==
  [x \in DOMAIN running \cup {h} |-> IF x = h THEN callback ELSE running[x]]

\* clearInterval(h) for every h of hs.
ClearTimers(running, hs) ==
  [x \in DOMAIN running \ hs |-> running[x]]

\* No chart is live.
NoLiveCharts == [h \in {} |-> ""]

\* chart.destroy() for the charts with the handles hs.
Destroy(live, hs) == [h \in DOMAIN live \ hs |-> live[h]]

\* The handle new Chart returns for the chart of `key`: one that no live
\* chart and no other registry entry holds, the first free one from the
\* key's own number on.
ChartBase(key) ==
  CASE key = "fleetStatus" -> 1 [] key = "successRate" -> 2
    [] key = "deliveryTime" -> 3 [] key = "utilization" -> 4
    [] key = "missionDistribution" -> 5 [] OTHER -> 6

NewChart(live, registry, key) ==
  Min((ChartBase(key) .. Cardinality(ChartKeys) + Cardinality(live) + 1) \
      (live \cup { registry[c] : c \in ChartKeys \ {key} }))

(* ------------------------------------------------------------------ *)
(* Initial state: the script has run and DOMContentLoaded has fired    *)
(* ------------------------------------------------------------------ *)

\* The tracking page's one flight item: the width of its progress bar in
\* tenths of a percent, its percent-complete label and its ETA in minutes.
InitialFlights == << [width |-> 980, label |-> 98, eta |-> 1] >>

Init ==
  /\ currentUser = NoUser
  /\ charts = NoCharts
  /\ updateIntervals = NoIntervals
  /\ isInitialized = FALSE
  /\ appData = [kpi_data |-> DefaultKpi, drone_fleet |-> <<>>,
                medical_supplies |-> <<>>]
  /\ dom = [loginHidden |-> FALSE, mainHidden |-> TRUE,
            errorHidden |-> TRUE, errorText |-> "",
            username |-> "", password |-> "",
            userName |-> "", userRole |-> "",
            activePage |-> {"dashboard"}, activeNav |-> {"dashboard"},
            usernameFocused |-> TRUE,
            fleetGrid |-> <<>>, inventoryGrid |-> <<>>,
            kpiShown |-> <<>>, kpiUnits |-> {},
            flights |-> InitialFlights, timeLabel |-> 2]
  /\ timers = (GlobalTimer :> "global")
  /\ liveCharts = NoLiveCharts
  /\ tasks = EmptyBag
  /\ inputs = 0
  /\ last = Ev("load")

(* ------------------------------------------------------------------ *)
(* Authentication                                                      *)
(* ------------------------------------------------------------------ *)

\* showLoginError(message), the document's part; the caller schedules the
\* 5 s timeout that hides the message again.
showLoginError(d, message) ==
  [d EXCEPT !.errorText = message, !.errorHidden = FALSE]

\* clearLoginForm()
clearLoginForm(d) ==
  [d EXCEPT !.username = "", !.password = "", !.errorHidden = TRUE]

\* showPage without the two loops that remove the class "active".
showPageKeepsActive(d, pageId) ==
  [d EXCEPT !.activePage = @ \cup ({pageId} \cap Pages),
            !.activeNav  = @ \cup ({pageId} \cap Pages)]

\* showPage(pageId), the document's part: activePage and activeNav are the
\* pages and the nav items that carry the class "active"; it is removed
\* from all of them and added to the element of pageId, if there is one.
\* The caller schedules the 50 ms timeout that runs initializePage(pageId).
showPage(d, pageId) ==
  [d EXCEPT !.activePage = (@ \ Pages) \cup ({pageId} \cap Pages),
            !.activeNav  = (@ \ Pages) \cup ({pageId} \cap Pages)]

\* handleLogin up to its await: the user has typed `raw` into the two
\* fields; empty input is refused, anything else is posted to /login.
LoginStart(raw) ==
  /\ Input
  /\ LET username == Trim(raw[1])
         password == Trim(raw[2])
         typed == [dom EXCEPT !.username = raw[1], !.password = raw[2],
                              !.usernameFocused = FALSE]
     IN  /\ Room(1)
         /\ IF username = "" \/ password = ""
              THEN /\ dom' = showLoginError(typed, "Please enter both username and password.")
                   /\ tasks' = Add(tasks, Task("tErrorHide"))
                   /\ last' = [Ev("loginRefused") EXCEPT !.u = username, !.p = password]
              ELSE /\ dom' = typed
                   /\ tasks' = Add(tasks, [Task("login") EXCEPT !.u = username, !.p = password])
                   /\ last' = [Ev("loginPosted") EXCEPT !.u = username, !.p = password]
         /\ UNCHANGED <<currentUser, charts, updateIntervals, isInitialized,
                        appData, timers, liveCharts>>

\* The login form is submitted with one of `attempts` typed into it; the
\* form is on the login screen.
UserSubmitsLogin(attempts) ==
  /\ ~dom.loginHidden
  /\ \E raw \in attempts : LoginStart(raw)

\* LocalAuth with the comparison of the passwords turned round.
LocalAuthInverted(username, password) ==
  IF username \in DOMAIN demo_users /\ demo_users[username].password # password
    THEN << [username |-> username] @@ demo_users[username] >>
    ELSE << >>

\* The fallback lookup: the table entry of `username` when it exists and
\* its password is `password`.
LocalAuth(username, password) ==
  IF username \in DOMAIN demo_users /\ demo_users[username].password = password
    THEN << [username |-> username] @@ demo_users[username] >>
    ELSE << >>

\* The session record handleLogin stores for the response `resp`:
\* response.user when the backend grants, else the fallback lookup.
Authenticate(username, password, resp) ==
  IF resp = "granted" THEN << BackendUser(username) >>
                      ELSE LocalAuth(username, password)

\* handleLogin from its await on: the response to the POST of task t
\* arrives, one of `answers`.
LoginSettles(answers) ==
  /\ Own
  /\ \E t \in Pending :
       /\ t.k = "login"
       /\ \E resp \in LoginResponses(t.u, t.p) \cap answers :
            LET auth == Authenticate(t.u, t.p, resp)
                ev == [Ev("login") EXCEPT !.u = t.u, !.p = t.p, !.resp = resp,
                                          !.stale = t.stale]
            IN  IF auth = << >>
                  THEN /\ dom' = clearLoginForm(showLoginError(dom, "Invalid username or password."))
                       /\ tasks' = Add(Remove(tasks, t), Task("tErrorHide"))
                       /\ last' = [ev EXCEPT !.failed = TRUE]
                       /\ UNCHANGED currentUser
                  ELSE /\ currentUser' = auth[1]
                       /\ dom' = [clearLoginForm(dom) EXCEPT
                                    !.loginHidden = TRUE, !.mainHidden = FALSE,
                                    !.userName = auth[1].full_name,
                                    !.userRole = auth[1].role]
                       /\ tasks' = Add(MarkStale(Remove(tasks, t)),
                                       [Task("tInitMainApp") EXCEPT !.stale = t.stale])
                       /\ last' = ev
       /\ UNCHANGED <<charts, updateIntervals, isInitialized, appData, timers,
                      liveCharts>>

\* The 5 s timeout of showLoginError fires.
ErrorHideFires ==
  /\ Own
  /\ Task("tErrorHide") \in Pending
  /\ tasks' = Remove(tasks, Task("tErrorHide"))
  /\ dom' = [dom EXCEPT !.errorHidden = TRUE]
  /\ last' = Ev("timeout")
  /\ UNCHANGED <<currentUser, charts, updateIntervals, isInitialized,
                 appData, timers, liveCharts>>

\* handleLogout's view switch with the main view left as it is.
ShowLoginScreenOverMain(d) == [d EXCEPT !.loginHidden = FALSE]

\* handleLogout, "Hide main app and show login screen".
ShowLoginScreen(d) == [d EXCEPT !.mainHidden = TRUE, !.loginHidden = FALSE]

\* handleLogout()
handleLogout ==
  /\ Input
  /\ Room(2)
  /\ currentUser' = NoUser
  /\ timers' = ClearTimers(timers, Range(updateIntervals))
  /\ updateIntervals' = NoIntervals
  /\ liveCharts' = Destroy(liveCharts, Range(charts))
  /\ charts' = NoCharts
  /\ dom' = showPage(clearLoginForm(ShowLoginScreen(dom)), "dashboard")
  /\ tasks' = Add(Add(MarkStale(tasks),
                      [Task("tInitPage") EXCEPT !.page = "dashboard"]),
                  Task("tFocus"))
  /\ last' = Ev("logout")
  /\ UNCHANGED <<isInitialized, appData>>

\* The logout button is clicked; the button is in the main view.
UserClicksLogout ==
  /\ ~dom.mainHidden
  /\ handleLogout

\* The 100 ms timeout of handleLogout fires: usernameField.focus().
FocusFires ==
  /\ Own
  /\ Task("tFocus") \in Pending
  /\ tasks' = Remove(tasks, Task("tFocus"))
  /\ dom' = [dom EXCEPT !.usernameFocused = TRUE]
  /\ last' = Ev("timeout")
  /\ UNCHANGED <<currentUser, charts, updateIntervals, isInitialized,
                 appData, timers, liveCharts>>


(* ------------------------------------------------------------------ *)
(* Navigation                                                          *)
(* ------------------------------------------------------------------ *)

\* The 100 ms timeout of handleLogin fires: initializeMainApp().
InitMainAppFires ==
  /\ Own
  /\ \E t \in Pending :
       /\ t.k = "tInitMainApp"
       /\ IF isInitialized
            THEN /\ tasks' = Remove(tasks, t)
                 /\ UNCHANGED <<dom, isInitialized>>
            ELSE /\ dom' = showPage(dom, "dashboard")
                 /\ tasks' = Add(Remove(tasks, t),
                                 [Task("tInitPage") EXCEPT !.page = "dashboard"])
                 /\ isInitialized' = TRUE
  /\ last' = Ev("timeout")
  /\ UNCHANGED <<currentUser, charts, updateIntervals, appData, timers,
                 liveCharts>>

\* showPage(pageId) as an event handler.
Navigate(pageId) ==
  /\ Input
  /\ Room(1)
  /\ dom' = showPage(dom, pageId)
  /\ tasks' = Add(tasks, [Task("tInitPage") EXCEPT !.page = pageId])
  /\ last' = [Ev("showPage") EXCEPT !.u = pageId]
  /\ UNCHANGED <<currentUser, charts, updateIntervals, isInitialized,
                 appData, timers, liveCharts>>

\* The nav item of one of `pages` is clicked: the listeners are attached
\* by initializeMainApp and the nav items are in the main view.
UserClicksNav(pages) ==
  /\ isInitialized
  /\ ~dom.mainHidden
  /\ \E pageId \in pages : Navigate(pageId)

\* initializeTracking()
initializeTracking(running, registry) ==
  LET cleared == IF registry.tracking # 0
                   THEN ClearTimers(running, {registry.tracking}) ELSE running
      h == NewTimer(cleared, [registry EXCEPT !.tracking = 0], "tracking")
  IN  [timers |-> SetTimer(cleared, h, "tracking"),
       updateIntervals |-> [registry EXCEPT !.tracking = h]]

\* What initializePage(pageId) starts: the asynchronous call or the timeout
\* of the page's initializer, none for tracking and for an unknown page.
PageTask(pageId) ==
  CASE pageId = "dashboard" ->
         << [Task("dash") EXCEPT !.kpi = "pending", !.fleet = "pending",
                                 !.inv = "pending"] >>
    [] pageId = "fleet"       -> << [Task("fleetPage") EXCEPT !.fleet = "pending"] >>
    [] pageId = "analytics"   -> << Task("tAnalytics") >>
    [] pageId = "inventory"   -> << [Task("inventoryPage") EXCEPT !.inv = "pending"] >>
    [] pageId = "maintenance" -> << Task("tMaintenance") >>
    [] OTHER                  -> << >>

\* The 50 ms timeout of showPage fires: initializePage(pageId).
InitPageFires ==
  /\ Own
  /\ \E t \in Pending :
       /\ t.k = "tInitPage"
       /\ tasks' = IF PageTask(t.page) = << >>
                     THEN Remove(tasks, t)
                     ELSE Add(Remove(tasks, t), PageTask(t.page)[1])
       /\ IF t.page = "tracking"
            THEN /\ timers' = initializeTracking(timers, updateIntervals).timers
                 /\ updateIntervals' =
                      initializeTracking(timers, updateIntervals).updateIntervals
            ELSE UNCHANGED <<timers, updateIntervals>>
       /\ last' = [Ev("initializePage") EXCEPT !.u = t.page]
       /\ UNCHANGED <<currentUser, charts, isInitialized, appData, dom, liveCharts>>
   

(* ------------------------------------------------------------------ *)
(* Fetch wrappers                                                      *)
(* ------------------------------------------------------------------ *)

\* apiRequest without the test of response.ok.
apiRequestAnyStatus(response) ==
  IF response.status = 0 THEN [threw |-> TRUE, value |-> "-"]
  ELSE IF response.body \in JsonBodies THEN [threw |-> FALSE, value |-> "body"]
  ELSE [threw |-> TRUE, value |-> "-"]

\* apiRequest(endpoint, options) from its await on, `response` being what
\* fetch() settled with: it rethrows the rejection of fetch, throws when
\* response.ok is false (the status is not in 200..299), and returns
\* response.json(), which rejects when the body is not JSON.  It assigns
\* no variable of the program.
apiRequest(response) ==
  IF response.status = 0 THEN [threw |-> TRUE, value |-> "-"]
  ELSE IF ~(response.status >= 200 /\ response.status <= 299)
    THEN [threw |-> TRUE, value |-> "-"]
  ELSE IF response.body \in JsonBodies THEN [threw |-> FALSE, value |-> "body"]
  ELSE [threw |-> TRUE, value |-> "-"]

\* The await of a fetch wrapper on apiRequest resolves.
Resolves(response) == ~apiRequest(response).threw

\* fetchKPIs() when its request settles: ok with the body `data`, or not.
\* cache is appData after it, result what it returns, threw whether it
\* rejects.
fetchKPIs(cache, ok, data) ==
  IF ok THEN [cache |-> [cache EXCEPT !.kpi_data = data], result |-> data,
              threw |-> FALSE]
        ELSE [cache |-> cache, result |-> cache.kpi_data, threw |-> FALSE]

\* fetchFleetStatus with a catch that returns an empty list, as fetchAlerts
\* does, instead of the cached fleet.
fetchFleetStatusEmpty(cache, ok, data) ==
  IF ok THEN [cache |-> [cache EXCEPT !.drone_fleet = data], result |-> data,
              threw |-> FALSE]
        ELSE [cache |-> cache, result |-> << >>, threw |-> FALSE]

\* fetchFleetStatus() when its request settles.
fetchFleetStatus(cache, ok, data) ==
  IF ok THEN [cache |-> [cache EXCEPT !.drone_fleet = data], result |-> data,
              threw |-> FALSE]
        ELSE [cache |-> cache, result |-> cache.drone_fleet, threw |-> FALSE]

\* fetchMedicalSupplies() when its request settles.
fetchMedicalSupplies(cache, ok, data) ==
  IF ok THEN [cache |-> [cache EXCEPT !.medical_supplies = data],
              result |-> data, threw |-> FALSE]
        ELSE [cache |-> cache, result |-> cache.medical_supplies,
              threw |-> FALSE]

\* Task t with its fetch f settled.
Settled(t, f, ok) == [t EXCEPT ![f] = "done", !.failed = @ \/ ~ok]

\* AllSettled as Promise.any would have it: one fetch of t has settled.
AnySettled(t) == "done" \in {t.kpi, t.fleet, t.inv}

\* No fetch of task t is still pending: its Promise.all resolves.
AllSettled(t) == "pending" \notin {t.kpi, t.fleet, t.inv}

\* The event of a step in which fetch f of task t settles.
FetchEv(op, t, f, ok, response) ==
  [Ev(op) EXCEPT !.u = f, !.failed = ~ok, !.wrote = ok, !.stale = t.stale,
                 !.response = response,
                 !.anyFailed = Settled(t, f, ok).failed]

(* ------------------------------------------------------------------ *)
(* Charts                                                              *)
(* ------------------------------------------------------------------ *)

\* The canvas the chart initializer of `key` draws on.
Canvas(key) ==
  CASE key = "fleetStatus"         -> "fleet-status-chart"
    [] key = "successRate"         -> "success-rate-chart"
    [] key = "deliveryTime"        -> "delivery-time-chart"
    [] key = "utilization"         -> "utilization-chart"
    [] key = "missionDistribution" -> "mission-distribution-chart"
    [] OTHER                       -> "component-health-chart"

\* The chart initializers without their "if (charts.key) destroy()".
CreateChartKeepsOld(st, key) ==
  LET h == NewChart(DOMAIN st.liveCharts, st.charts, key)
  IN  [charts |-> [st.charts EXCEPT ![key] = h],
       liveCharts |-> [x \in DOMAIN st.liveCharts \cup {h} |->
                         IF x = h THEN Canvas(key) ELSE st.liveCharts[x]]]

\* The chart initializers' common part: destroy the chart the registry
\* holds for `key`, create a new one and store it.  st is [charts, liveCharts].
CreateChart(st, key) ==
  LET live == IF st.charts[key] # 0 THEN Destroy(st.liveCharts, {st.charts[key]})
                                    ELSE st.liveCharts
      h == NewChart(DOMAIN live, st.charts, key)
  IN  [charts |-> [st.charts EXCEPT ![key] = h],
       liveCharts |-> [x \in DOMAIN live \cup {h} |->
                         IF x = h THEN Canvas(key) ELSE live[x]]]

\* A timeout of initializeDashboard or of updateDashboardData fires:
\* initializeFleetStatusChart().
FleetChartFires ==
  /\ Own
  /\ Task("tFleetChart") \in Pending
  /\ tasks' = Remove(tasks, Task("tFleetChart"))
  /\ charts' = CreateChart([charts |-> charts, liveCharts |-> liveCharts],
                           "fleetStatus").charts
  /\ liveCharts' = CreateChart([charts |-> charts, liveCharts |-> liveCharts],
                               "fleetStatus").liveCharts
  /\ last' = [Ev("initializeFleetStatusChart") EXCEPT
                !.u = IF charts.fleetStatus # 0 THEN "replaced" ELSE "first"]
  /\ UNCHANGED <<currentUser, updateIntervals, isInitialized, appData, dom,
                 timers>>

\* The window is resized: the listener calls resize() on every chart the
\* registry holds; it assigns nothing.
WindowResizes ==
  /\ Input
  /\ last' = Ev("resize")
  /\ UNCHANGED <<currentUser, charts, updateIntervals, isInitialized,
                 appData, dom, timers, liveCharts, tasks>>

\* The four chart initializers of the analytics page, in their order.
AnalyticsCharts(st) ==
  CreateChart(CreateChart(CreateChart(CreateChart(st, "successRate"),
              "deliveryTime"), "utilization"), "missionDistribution")

\* The 100 ms timeout of initializeAnalytics fires.
AnalyticsFires ==
  /\ Own
  /\ Task("tAnalytics") \in Pending
  /\ tasks' = Remove(tasks, Task("tAnalytics"))
  /\ charts' = AnalyticsCharts([charts |-> charts, liveCharts |-> liveCharts]).charts
  /\ liveCharts' = AnalyticsCharts([charts |-> charts, liveCharts |-> liveCharts]).liveCharts
  /\ last' = Ev("timeout")
  /\ UNCHANGED <<currentUser, updateIntervals, isInitialized, appData, dom,
                 timers>>

\* The 100 ms timeout of initializeMaintenance fires:
\* initializeComponentHealthChart().
MaintenanceFires ==
  /\ Own
  /\ Task("tMaintenance") \in Pending
  /\ tasks' = Remove(tasks, Task("tMaintenance"))
  /\ charts' = CreateChart([charts |-> charts, liveCharts |-> liveCharts],
                           "componentHealth").charts
  /\ liveCharts' = CreateChart([charts |-> charts, liveCharts |-> liveCharts],
                               "componentHealth").liveCharts
  /\ last' = Ev("timeout")
  /\ UNCHANGED <<currentUser, updateIntervals, isInitialized, appData, dom,
                 timers>>


(* ------------------------------------------------------------------ *)
(* Dashboard                                                           *)
(* ------------------------------------------------------------------ *)

Max(a, b) == IF a >= b THEN a ELSE b

Least(a, b) == IF a <= b THEN a ELSE b

\* fetch f of a page initializer or of a refresh settles.
Fetch(f, cache, ok, dk, df, ds) ==
  CASE f = "kpi"   -> fetchKPIs(cache, ok, dk)
    [] f = "fleet" -> fetchFleetStatus(cache, ok, df)
    [] f = "inv"   -> fetchMedicalSupplies(cache, ok, ds)

\* initializeDashboard, "Start real-time updates": the registered dashboard
\* timer is cleared and a new one is registered.
StartDashboardUpdates(running, registry) ==
  LET cleared == IF registry.dashboard # 0
                   THEN ClearTimers(running, {registry.dashboard}) ELSE running
      h == NewTimer(cleared, [registry EXCEPT !.dashboard = 0], "dashboard")
  IN  [timers |-> SetTimer(cleared, h, "dashboard"),
       updateIntervals |-> [registry EXCEPT !.dashboard = h]]

\* What animateValue(element, 0, end, duration) and the snap timeout leave
\* in the four KPI elements: the numbers of kpi, and "NaN" for a rate that
\* kpi does not have (0 + (undefined - 0) * progress is NaN, and the snap
\* timeout throws at undefined.toFixed before it writes).
Animated(kpi) ==
  [total_drones |-> kpi.total_drones,
   active_missions |-> kpi.active_missions,
   success_rate |->
     IF "success_rate" \in DOMAIN kpi THEN kpi.success_rate ELSE NaN,
   avg_delivery_time |->
     IF "avg_delivery_time" \in DOMAIN kpi THEN kpi.avg_delivery_time ELSE NaN]

\* The KPI elements in the order in which their animations end (after
\* 1000, 1200, 1500 and 1800 ms), and the two that have a snap timeout.
Animations ==
  << "total_drones", "active_missions", "success_rate", "avg_delivery_time" >>

Rates == {"success_rate", "avg_delivery_time"}

\* The rates of kpi the snap timeouts write with their unit.
Snapped(kpi) == { el \in Rates : el \in DOMAIN kpi }

\* Names for the activations of the dashboard whose animation is running.
Activations == << "a1", "a2", "a3", "a4" >>

\* The first name that no pending frame or snap timeout carries.
FreshActivation ==
  Activations[Min({ i \in DOMAIN Activations :
                      \A t \in Pending : t.act # Activations[i] })]

\* The tasks the end of initializeDashboard schedules when the animation is
\* followed frame by frame: the requestAnimationFrame callbacks of the four
\* animateValue calls, which run together in each frame, the two snap
\* timeouts and the chart timeout.
AnimationTasks(kpi, act) ==
  SetToBag({ [Task("tFrame") EXCEPT !.act = act, !.kd = kpi],
             [Task("tSnap") EXCEPT !.act = act, !.el = "success_rate"],
             [Task("tSnap") EXCEPT !.act = act, !.el = "avg_delivery_time"],
             Task("tFleetChart") })

\* initializeDashboard: one of its three requests settles, ok or not as
\* `outcomes` allows; with the last one its Promise.all resolves and the
\* function runs to its end, with the animation taken by its end or, when
\* `framed`, scheduled.
DashboardSettles(outcomes, framed) ==
  /\ Own
  /\ \E t \in Pending :
       /\ t.k = "dash"
       /\ \E resp \in outcomes : \E f \in {"kpi", "fleet", "inv"}, ok \in {Resolves(resp)}, dk \in KpiBodies(resp),
             df \in FleetSnapshots, ds \in SupplySnapshots :
            /\ t[f] = "pending"
            /\ appData' = Fetch(f, appData, ok, dk, df, ds).cache
            /\ IF AllSettled(Settled(t, f, ok))
                 THEN /\ IF framed
                           THEN /\ tasks' = Remove(tasks, t) (+)
                                     AnimationTasks(appData'.kpi_data, FreshActivation)
                                /\ UNCHANGED dom
                           ELSE /\ tasks' = Add(Remove(tasks, t), Task("tFleetChart"))
                                /\ dom' = [dom EXCEPT
                                     !.kpiShown = << Animated(appData'.kpi_data) >>,
                                     !.kpiUnits = Snapped(appData'.kpi_data)]
                      /\ timers' = StartDashboardUpdates(timers, updateIntervals).timers
                      /\ updateIntervals' =
                           StartDashboardUpdates(timers, updateIntervals).updateIntervals
                      /\ last' = FetchEv("initializeDashboard", t, f, ok, resp)
                 ELSE /\ tasks' = Add(Remove(tasks, t), Settled(t, f, ok))
                      /\ UNCHANGED <<timers, updateIntervals, dom>>
                      /\ last' = FetchEv("fetch", t, f, ok, resp)
       /\ UNCHANGED <<currentUser, charts, isInitialized, liveCharts>>

DashSettles(outcomes) == DashboardSettles(outcomes, FALSE)

DashSettlesFramed(outcomes) == DashboardSettles(outcomes, TRUE)

\* The dashboard timer ticks: updateDashboardData() issues its two requests.
DashboardTick ==
  /\ Input
  /\ \E h \in DOMAIN timers : timers[h] = "dashboard"
  /\ Room(1)
  /\ tasks' = Add(tasks, [Task("update") EXCEPT !.kpi = "pending",
                                                !.fleet = "pending"])
  /\ last' = Ev("dashboardTick")
  /\ UNCHANGED <<currentUser, charts, updateIntervals, isInitialized,
                 appData, dom, timers, liveCharts>>

\* A statement of updateDashboardData's try block throws: toFixed is called
\* on a success_rate or an avg_delivery_time that kpiData does not have.
RenderThrows(kd) ==
  "success_rate" \notin DOMAIN kd \/ "avg_delivery_time" \notin DOMAIN kd

\* x / 10 rounded to the nearest integer, halves up (x >= 0).
Round10(x) == (x + 5) \div 10

\* The KPI elements before the script has written them: index.html is not
\* among the sources, their texts are taken as no numbers.
Markup ==
  [total_drones |-> NaN, active_missions |-> NaN,
   success_rate |-> NaN, avg_delivery_time |-> NaN]

\* The numbers the KPI elements show.
Shown(d) == IF d.kpiShown = << >> THEN Markup ELSE d.kpiShown[1]

\* The progress (in tenths) of an animation in a frame before its last.
Progresses == {5}

\* What update(currentTime) of animateValue(element, 0, end, duration)
\* writes at `progress` (in tenths) for the element el: toFixed(1) of the
\* interpolated value when end has a fraction, its Math.floor when not.
\* The counts are whole numbers, the rates are in tenths.
Interpolated(el, end, progress) ==
  IF end = NaN THEN NaN
  ELSE IF el \in Rates
    THEN IF end % 10 # 0 THEN Round10(end * progress)
                         ELSE ((end * progress) \div 100) * 10
  ELSE (end * progress) \div 10

\* The snap timeout of activation act for the element el has fired.
SnapDone(act, el) ==
  ~\E t \in Pending : t.k = "tSnap" /\ t.act = act /\ t.el = el

\* The least number of animations of activation act whose duration has
\* passed: the snap timeouts were set with the animations and fire no
\* earlier than after 1600 and 1900 ms, when three (1500 ms) and all four
\* (1800 ms) durations are over.
Elapsed(act) ==
  IF SnapDone(act, "avg_delivery_time") THEN 4
  ELSE IF SnapDone(act, "success_rate") THEN 3 ELSE 0

\* An animation frame: the update callbacks of the animations of one
\* activation that have not ended run; those of the first n elements have
\* reached their duration, write the end value and request no further
\* frame, the others write an interpolated value.  The text they write has
\* no unit.
AnimationFrame ==
  /\ Own
  /\ \E t \in Pending :
       /\ t.k = "tFrame"
       /\ \E n \in Max(t.ended, Elapsed(t.act)) .. Len(Animations),
             progress \in Progresses :
            LET end == Animated(t.kd)
                running == { Animations[i] : i \in (t.ended + 1) .. Len(Animations) }
                ending == { Animations[i] : i \in (t.ended + 1) .. n }
            IN  /\ dom' = [dom EXCEPT
                     !.kpiShown =
                        << [el \in DOMAIN Markup |->
                              IF el \in ending THEN Interpolated(el, end[el], 10)
                              ELSE IF el \in running
                                THEN Interpolated(el, end[el], progress)
                              ELSE Shown(dom)[el]] >>,
                     !.kpiUnits = @ \ running]
                /\ tasks' = IF n = Len(Animations)
                              THEN Remove(tasks, t)
                              ELSE Add(Remove(tasks, t), [t EXCEPT !.ended = n])
       /\ last' = [Ev("animationFrame") EXCEPT !.u = t.act]
  /\ UNCHANGED <<currentUser, charts, updateIntervals, isInitialized,
                 appData, timers, liveCharts>>

\* A snap timeout of initializeDashboard fires, the one of the delivery
\* time (1900 ms) after the one of the success rate (1600 ms): the element
\* gets the rate that appData.kpi_data has now, with one decimal and its
\* unit; toFixed throws, and nothing is written, when kpi_data has no such
\* rate.
SnapFires ==
  /\ Own
  /\ \E t \in Pending :
       /\ t.k = "tSnap"
       /\ t.el = "avg_delivery_time" => SnapDone(t.act, "success_rate")
       /\ tasks' = Remove(tasks, t)
       /\ IF t.el \in DOMAIN appData.kpi_data
            THEN dom' = [dom EXCEPT
                   !.kpiShown = << [Shown(dom) EXCEPT ![t.el] = appData.kpi_data[t.el]] >>,
                   !.kpiUnits = @ \cup {t.el}]
            ELSE UNCHANGED dom
       /\ last' = [Ev("snap") EXCEPT !.u = t.act, !.p = t.el]
  /\ UNCHANGED <<currentUser, charts, updateIntervals, isInitialized,
                 appData, timers, liveCharts>>

\* What updateDashboardData's try block has written to the KPI elements
\* when it throws: the two counts, and the success rate when it is the
\* delivery time that kpiData lacks.
WrittenBeforeThrow(shown, kd) ==
  [shown EXCEPT !.total_drones = kd.total_drones,
                !.active_missions = kd.active_missions,
                !.success_rate =
                   IF "success_rate" \in DOMAIN kd THEN kd.success_rate ELSE @]

\* Math.max(lo, Math.min(hi, parseFloat(text) + delta)).toFixed(1) with the
\* text in tenths and lo, hi, delta in hundredths: "NaN" when the text is
\* not a number, as Math.min and Math.max return NaN for a NaN argument.
Clamped(text, lo, hi, delta) ==
  IF text = NaN THEN NaN
  ELSE Round10(Max(lo, Least(hi, text * 10 + delta)))

\* updateDashboardDataLocal(): the displayed success rate and delivery time
\* (tenths) and the batteries of the fleet (tenths of a percent), with u
\* the draws of Math.random() in tenths.
updateDashboardDataLocal(shown, fleet, u) ==
  [shown |->
     [shown EXCEPT
        !.success_rate = Clamped(@, 9000, 10000, u.s - 5),
        !.avg_delivery_time = Clamped(@, 800, 2000, (u.d - 5) * 5)],
   fleet |->
     [i \in DOMAIN fleet |->
        IF fleet[i].status = "Active" /\ fleet[i].battery > 200
          THEN [fleet[i] EXCEPT !.battery = Max(200, @ - u.b[i] * 2)]
        ELSE IF fleet[i].status = "Charging" /\ fleet[i].battery < 1000
          THEN [fleet[i] EXCEPT !.battery = Least(1000, @ + u.b[i] * 5)]
        ELSE fleet[i]]]

\* updateDashboardData from its await on: one of its two requests settles;
\* with the second its Promise.all resolves, the KPI elements are written
\* from kpiData and a live registry entry for the fleet chart is destroyed
\* and its re-creation scheduled.
UpdateSettles(outcomes) ==
  /\ Own
  /\ \E t \in Pending :
       /\ t.k = "update"
       /\ \E resp \in outcomes : \E f \in {"kpi", "fleet"}, ok \in {Resolves(resp)}, dk \in KpiBodies(resp),
             df \in FleetSnapshots, ds \in SupplySnapshots :
            LET r  == Fetch(f, appData, ok, dk, df, ds)
                t2 == IF f = "kpi" THEN [Settled(t, f, ok) EXCEPT !.kd = r.result]
                                   ELSE Settled(t, f, ok)
            IN  /\ t[f] = "pending"
                /\ IF ~AllSettled(t2)
                     THEN /\ appData' = r.cache
                          /\ tasks' = Add(Remove(tasks, t), t2)
                          /\ last' = FetchEv("fetch", t, f, ok, resp)
                          /\ UNCHANGED <<dom, liveCharts>>
                   ELSE IF RenderThrows(t2.kd)
                     THEN \E s \in RandomDraws, d \in RandomDraws,
                             b \in [DOMAIN r.cache.drone_fleet -> RandomDraws] :
                            LET sim == updateDashboardDataLocal(
                                         WrittenBeforeThrow(dom.kpiShown[1], t2.kd),
                                         r.cache.drone_fleet,
                                         [s |-> s, d |-> d, b |-> b])
                            IN  /\ appData' = [r.cache EXCEPT !.drone_fleet = sim.fleet]
                                /\ dom' = [dom EXCEPT !.kpiShown = << sim.shown >>,
                                                       !.kpiUnits = Rates]
                                /\ tasks' = Remove(tasks, t)
                                /\ last' = [FetchEv("updateDashboardData", t, f, ok, resp)
                                              EXCEPT !.simulated = TRUE]
                                /\ UNCHANGED liveCharts
                   ELSE /\ appData' = r.cache
                        /\ dom' = [dom EXCEPT !.kpiShown = << t2.kd >>,
                                               !.kpiUnits = Rates]
                        /\ last' = FetchEv("updateDashboardData", t, f, ok, resp)
                        /\ IF charts.fleetStatus # 0
                             THEN /\ liveCharts' = Destroy(liveCharts, {charts.fleetStatus})
                                  /\ tasks' = Add(Remove(tasks, t), Task("tFleetChart"))
                             ELSE /\ tasks' = Remove(tasks, t)
                                  /\ UNCHANGED liveCharts
       /\ UNCHANGED <<currentUser, charts, updateIntervals, isInitialized, timers>>
   

(* ------------------------------------------------------------------ *)
(* Fleet and inventory pages                                           *)
(* ------------------------------------------------------------------ *)

\* createDroneCard(drone): what the card shows.
createDroneCard(drone) ==
  [id |-> drone.id, status |-> drone.status,
   batteryClass |-> IF drone.battery > 600 THEN "high"
                    ELSE IF drone.battery > 300 THEN "medium" ELSE "low",
   width |-> drone.battery,
   percent |-> Round10(drone.battery)]

\* The cards initializeFleetManagement appends to the cleared grid.
FleetCards(fleet) == [i \in DOMAIN fleet |-> createDroneCard(fleet[i])]

\* initializeFleetManagement from its await on: fetchFleetStatus settles
\* and the grid is rebuilt from what it returns.
FleetPageSettles(outcomes) ==
  /\ Own
  /\ \E resp \in outcomes : \E t \in Pending, ok \in {Resolves(resp)}, df \in FleetSnapshots :
       /\ t.k = "fleetPage"
       /\ appData' = fetchFleetStatus(appData, ok, df).cache
       /\ dom' = [dom EXCEPT !.fleetGrid =
                    FleetCards(fetchFleetStatus(appData, ok, df).result)]
       /\ tasks' = Remove(tasks, t)
       /\ last' = FetchEv("initializeFleetManagement", t, "fleet", ok, resp)
       /\ UNCHANGED <<currentUser, charts, updateIntervals, isInitialized,
                      timers, liveCharts>>

\* createInventoryCard(supply): what the card shows; width is
\* Math.min(100, stockPercentage), whole percents.
createInventoryCard(supply) ==
  [item |-> supply.item_name, status |-> supply.quality_status,
   stock |-> supply.current_stock, min |-> supply.min_stock_level,
   fillClass |-> IF supply.quality_status = "Good" THEN "good" ELSE "low",
   width |-> Least(100, (supply.current_stock * 100)
                          \div (supply.min_stock_level * 2))]

\* The cards initializeInventory appends to the cleared grid.
InventoryCards(supplies) ==
  [i \in DOMAIN supplies |-> createInventoryCard(supplies[i])]

\* initializeInventory from its await on: fetchMedicalSupplies settles and
\* the grid is rebuilt from what it returns.
InventoryPageSettles(outcomes) ==
  /\ Own
  /\ \E resp \in outcomes : \E t \in Pending, ok \in {Resolves(resp)}, ds \in SupplySnapshots :
       /\ t.k = "inventoryPage"
       /\ appData' = fetchMedicalSupplies(appData, ok, ds).cache
       /\ dom' = [dom EXCEPT !.inventoryGrid =
                    InventoryCards(fetchMedicalSupplies(appData, ok, ds).result)]
       /\ tasks' = Remove(tasks, t)
       /\ last' = FetchEv("initializeInventory", t, "inv", ok, resp)
       /\ UNCHANGED <<currentUser, charts, updateIntervals, isInitialized,
                      timers, liveCharts>>

(* ------------------------------------------------------------------ *)
(* Tracking and the time labels                                        *)
(* ------------------------------------------------------------------ *)

\* updateFlightProgress() on one bar, with u the draw of Math.random() in
\* tenths: parseInt of the width, the advance of up to 5 points, the
\* rounded label and the ETA.
AdvanceFlight(flight, u) ==
  LET currentWidth == flight.width \div 10
      newWidth == Least(1000, currentWidth * 10 + u * 5)
  IN  IF currentWidth < 100
        THEN [width |-> newWidth, label |-> Round10(newWidth),
              eta |-> Max(1, ((1000 - newWidth) + 25) \div 50)]
        ELSE flight

\* The tracking timer ticks: updateFlightProgress().
TrackingTick ==
  /\ Input
  /\ \E h \in DOMAIN timers : timers[h] = "tracking"
  /\ \E u \in [DOMAIN dom.flights -> RandomDraws] :
       dom' = [dom EXCEPT !.flights =
                 [i \in DOMAIN dom.flights |-> AdvanceFlight(dom.flights[i], u[i])]]
  /\ last' = Ev("trackingTick")
  /\ UNCHANGED <<currentUser, charts, updateIntervals, isInitialized,
                 appData, timers, liveCharts, tasks>>

\* The 30 s timer of the script ticks: the first time label is rewritten
\* to (0 + 1) * 2 + floor(random * 3) minutes.
GlobalTick ==
  /\ Input
  /\ \E h \in DOMAIN timers : timers[h] = "global"
  /\ \E u \in RandomDraws :
       dom' = [dom EXCEPT !.timeLabel = 2 + (u * 3) \div 10]
  /\ last' = Ev("labelTick")
  /\ UNCHANGED <<currentUser, charts, updateIntervals, isInitialized,
                 appData, timers, liveCharts, tasks>>

(* ------------------------------------------------------------------ *)
(* window.MedDroneApp                                                  *)
(* ------------------------------------------------------------------ *)

\* MedDroneApp.handleLogin(event) while the login form is not shown.
ApiHandleLogin(attempts) ==
  /\ dom.loginHidden
  /\ \E raw \in attempts : LoginStart(raw)

\* MedDroneApp.handleLogout() while the logout button is not shown.
ApiHandleLogout ==
  /\ dom.mainHidden
  /\ handleLogout

\* MedDroneApp.showPage(pageId), for a page or for an unknown id, where no
\* nav item offers it.
ApiShowPage(pages) ==
  \E pageId \in pages :
    /\ ~(isInitialized /\ ~dom.mainHidden /\ pageId \in Pages)
    /\ Navigate(pageId)

(* ------------------------------------------------------------------ *)
(* Specifications                                                      *)
(* ------------------------------------------------------------------ *)

\* The credentials typed in Spec: two entries of the table and one that is
\* in no table.
FewAttempts == { <<"demo", "demo123">>, <<"admin", "admin123">>, <<"Demo", "demo123">> }

AnyAnswer == {"error", "denied", "granted"}

\* The session, the navigation, the dashboard with its refresh and the
\* tracking page, driven through the user interface.
Next ==
  \/ UserSubmitsLogin(FewAttempts)
  \/ LoginSettles(AnyAnswer)
  \/ ErrorHideFires
  \/ UserClicksLogout
  \/ FocusFires
  \/ InitMainAppFires
  \/ UserClicksNav({"dashboard", "tracking"})
  \/ InitPageFires
  \/ DashSettles(UpOrDown)
  \/ DashboardTick
  \/ UpdateSettles(UpOrDown)
  \/ FleetChartFires
  \/ TrackingTick

Spec == Init /\ [][Next]_vars


\* Authentication alone: every credential pair of Attempts, typed into the
\* form or passed to the exported handleLogin, every answer of POST /login,
\* and logout, while the requests of the data endpoints stay unanswered.
NextAuth ==
  \/ UserSubmitsLogin(Attempts)
  \/ ApiHandleLogin(Attempts)
  \/ LoginSettles(AnyAnswer)
  \/ ErrorHideFires
  \/ UserClicksLogout
  \/ ApiHandleLogout
  \/ FocusFires
  \/ InitMainAppFires
  \/ InitPageFires

SpecAuth == Init /\ [][NextAuth]_vars

\* The pages that fetch: one user logs in and visits the dashboard, the
\* fleet page and the inventory page while requests succeed and fail.
NextFetch ==
  \/ UserSubmitsLogin({ <<"demo", "demo123">> })
  \/ LoginSettles({"error"})
  \/ InitMainAppFires
  \/ UserClicksNav({"fleet", "inventory"})
  \/ InitPageFires
  \/ DashSettles(UpOrDown)
  \/ DashboardTick
  \/ UpdateSettles(UpOrDown)
  \/ FleetChartFires
  \/ FleetPageSettles(UpOrDown)
  \/ InventoryPageSettles(UpOrDown)

SpecFetch == Init /\ [][NextFetch]_vars

\* Navigation: one user logs in through the fallback table and every page,
\* and an id that is no page, is opened from the nav bar or through
\* window.MedDroneApp.  The requests to the data endpoints stay unanswered.
NextPages ==
  \/ UserSubmitsLogin({ <<"demo", "demo123">> })
  \/ LoginSettles({"error"})
  \/ InitMainAppFires
  \/ UserClicksNav(Pages)
  \/ ApiShowPage(Pages \cup {UnknownPage})
  \/ InitPageFires
  \/ AnalyticsFires
  \/ MaintenanceFires

SpecPages == Init /\ [][NextPages]_vars

\* The API client: one user logs in through the fallback table and opens
\* the dashboard, the fleet and the inventory page; the data endpoints
\* answer with any of Responses.
NextApi ==
  \/ UserSubmitsLogin({ <<"demo", "demo123">> })
  \/ LoginSettles({"error"})
  \/ InitMainAppFires
  \/ UserClicksNav({"fleet", "inventory"})
  \/ InitPageFires
  \/ DashSettles(Responses)
  \/ FleetChartFires
  \/ FleetPageSettles(Responses)
  \/ InventoryPageSettles(Responses)

SpecApi == Init /\ [][NextApi]_vars

\* The charts: one user logs in through the fallback table, opens the
\* pages that have charts, lets the dashboard refresh and logs out; every
\* request succeeds.
NextCharts ==
  \/ UserSubmitsLogin({ <<"demo", "demo123">> })
  \/ LoginSettles({"error"})
  \/ UserClicksLogout
  \/ FocusFires
  \/ InitMainAppFires
  \/ UserClicksNav({"dashboard", "analytics", "maintenance"})
  \/ InitPageFires
  \/ DashSettles({Up})
  \/ DashboardTick
  \/ UpdateSettles({Up})
  \/ FleetChartFires
  \/ AnalyticsFires
  \/ MaintenanceFires

SpecCharts == Init /\ [][NextCharts]_vars

\* The tracking page: it is opened from the nav bar after a login through
\* the fallback table, or through window.MedDroneApp, and its timer ticks.
NextTracking ==
  \/ UserSubmitsLogin({ <<"demo", "demo123">> })
  \/ LoginSettles({"error"})
  \/ InitMainAppFires
  \/ UserClicksNav({"tracking"})
  \/ ApiShowPage({"tracking"})
  \/ InitPageFires
  \/ TrackingTick

SpecTracking == Init /\ [][NextTracking]_vars

\* The local simulation: one user logs in through the fallback table and
\* the dashboard refreshes against a backend whose KPI endpoint answers
\* with all fields or without some of them.
NextSim ==
  \/ UserSubmitsLogin({ <<"demo", "demo123">> })
  \/ LoginSettles({"error"})
  \/ InitMainAppFires
  \/ InitPageFires
  \/ DashSettles({Up, Partial})
  \/ FleetChartFires
  \/ DashboardTick
  \/ UpdateSettles({Up, Partial})

SpecSim == Init /\ [][NextSim]_vars

\* The count-up animation: one user logs in through the fallback table,
\* activates the dashboard again, and the animation frames, the snap
\* timeouts and the refresh run in any order; the backend is unreachable.
NextAnim ==
  \/ UserSubmitsLogin({ <<"demo", "demo123">> })
  \/ LoginSettles({"error"})
  \/ InitMainAppFires
  \/ UserClicksNav({"dashboard"})
  \/ InitPageFires
  \/ DashSettlesFramed({Down})
  \/ AnimationFrame
  \/ SnapFires
  \/ FleetChartFires
  \/ DashboardTick
  \/ UpdateSettles({Down})

SpecAnim == Init /\ [][NextAnim]_vars

\* The dashboard chart over its life: one user logs in through the
\* fallback table, the dashboard refreshes, the window is resized and the
\* user logs out; every request succeeds.
NextRefresh ==
  \/ UserSubmitsLogin({ <<"demo", "demo123">> })
  \/ LoginSettles({"error"})
  \/ UserClicksLogout
  \/ FocusFires
  \/ InitMainAppFires
  \/ InitPageFires
  \/ DashSettles({Up})
  \/ FleetChartFires
  \/ DashboardTick
  \/ UpdateSettles({Up})
  \/ WindowResizes

SpecRefresh == Init /\ [][NextRefresh]_vars


(* ------------------------------------------------------------------ *)
(* Claims                                                              *)
(* ------------------------------------------------------------------ *)

LoggedOut == currentUser = NoUser

\* C1: after logout no interval timer of the registry runs before the next
\* login: while the session is LoggedOut the browser runs no dashboard and
\* no tracking timer.
C1_NoTimerWhileLoggedOut ==
  LoggedOut => \A h \in DOMAIN timers : timers[h] \notin {"dashboard", "tracking"}

\* C2: when handleLogout returns, the session is null and the cache holds
\* none of the snapshots that were fetched.
C2_LogoutClearsCache ==
  last.op = "logout" =>
    /\ LoggedOut
    /\ appData.kpi_data \notin KpiSnapshots
    /\ appData.drone_fleet \notin FleetSnapshots
    /\ appData.medical_supplies \notin SupplySnapshots

\* (u, p) is a pair of the fallback table.
InTable(u, p) == u \in DOMAIN demo_users /\ demo_users[u].password = p

\* C3: a handleLogin for a pair of the fallback table whose POST /login
\* fails or is answered without success ends LoggedIn, the main view shown,
\* with the role and the display name of that table entry.
C3_FallbackLoginSucceeds ==
  (last.op = "login" /\ last.resp \in {"error", "denied"} /\ InTable(last.u, last.p)) =>
    /\ ~LoggedOut
    /\ currentUser.username = last.u
    /\ currentUser.role = demo_users[last.u].role
    /\ currentUser.full_name = demo_users[last.u].full_name
    /\ dom.userRole = demo_users[last.u].role
    /\ dom.userName = demo_users[last.u].full_name
    /\ dom.loginHidden /\ ~dom.mainHidden

\* C3, its case: the fleet manager has logged in through the fallback table
\* after the backend answered without success.
C3_Witness ==
  /\ last.op = "login" /\ last.resp = "denied" /\ last.u = "fleet_mgr"
  /\ ~LoggedOut /\ currentUser.role = "Fleet Manager"
  /\ ~dom.mainHidden

\* C4: when a handleLogin for credentials that neither the backend nor the
\* fallback table accepts finishes, the error message is visible and both
\* fields are empty.
C4_RejectedLoginShowsError ==
  (last.op = "login" /\ last.failed) =>
    /\ ~dom.errorHidden
    /\ dom.username = "" /\ dom.password = ""

\* C5: a login that completes while the session is LoggedIn changes
\* nothing: a session record is replaced by nothing but null.
C5_LoginWhileLoggedInIsNoOp ==
  [][~LoggedOut => (currentUser' = currentUser \/ currentUser' = NoUser)]_vars

\* The delayed initializer of a login that was issued and answered with no
\* other login or logout in between, and the one of a login that was not.
FreshInitializer == Task("tInitMainApp")
AgedInitializer == [Task("tInitMainApp") EXCEPT !.stale = TRUE]
DashboardActivation == [Task("tInitPage") EXCEPT !.page = "dashboard"]

\* C6: a successful login itself activates the dashboard, the first one and
\* every one after a logout: when the delayed initializer of a login that
\* no other login or logout has overtaken fires, an
\* initializePage("dashboard") is scheduled.
C6_EveryLoginActivatesDashboard ==
  [][(/\ CopiesIn(FreshInitializer, tasks') = CopiesIn(FreshInitializer, tasks) - 1
      /\ CopiesIn(AgedInitializer, tasks') = CopiesIn(AgedInitializer, tasks))
       => CopiesIn(DashboardActivation, tasks') > CopiesIn(DashboardActivation, tasks)]_vars

\* C7: a session record holds exactly the username, the display name and
\* the role.
C7_SessionHoldsNoPassword ==
  ~LoggedOut => DOMAIN currentUser = {"username", "full_name", "role"}

\* C8: a step in which a KPI, fleet or inventory request fails leaves the
\* cache as it was, and the renderer that ends in that step draws from the
\* cached snapshot: the fleet grid gets one card per drone of the cached
\* fleet, the inventory grid one per cached supply, and the KPI elements
\* show the cached KPI snapshot.
C8_FailedFetchKeepsSnapshot ==
  [][(last'.op \in {"fetch", "initializeDashboard", "updateDashboardData",
                    "initializeFleetManagement", "initializeInventory"}
      /\ last'.failed) =>
       /\ appData' = appData
       /\ last'.op = "initializeFleetManagement" =>
            /\ Len(dom'.fleetGrid) = Len(appData.drone_fleet)
            /\ dom'.fleetGrid = FleetCards(appData.drone_fleet)
       /\ last'.op = "initializeInventory" =>
            dom'.inventoryGrid = InventoryCards(appData.medical_supplies)
       /\ (last'.op = "updateDashboardData" /\ last'.u = "kpi") =>
            dom'.kpiShown = << appData.kpi_data >>]_vars

\* C8, its case: the fleet page has been rebuilt after a failed request and
\* shows the two drones of the snapshot fetched before.
C8_Witness ==
  /\ last.op = "initializeFleetManagement" /\ last.failed
  /\ Len(appData.drone_fleet) = 2
  /\ Len(dom.fleetGrid) = 2

\* C9: a dashboard refresh in which the KPI or the fleet request has failed
\* runs updateDashboardDataLocal.
C9_FailedRefreshSimulates ==
  (last.op = "updateDashboardData" /\ last.anyFailed) => last.simulated

\* C10: the result of a call started before the most recent logout/login
\* boundary is discarded: it writes neither the cache nor the session.
C10_StaleResultDiscarded ==
  last.stale => /\ ~last.wrote
                /\ ~(last.op = "login" /\ ~last.failed)

\* C11: every running interval timer has its handle in updateIntervals, and
\* at most one timer runs per callback (dashboard, tracking).
C11_TimersInRegistry ==
  /\ \A h \in DOMAIN timers : h \in Range(updateIntervals)
  /\ \A h, g \in DOMAIN timers : timers[h] = timers[g] => h = g

\* The class the thresholds ">60 high, 30 to 60 medium, <30 low" give a
\* battery of b tenths of a percent.
BatteryClass(b) ==
  IF b > 600 THEN "high" ELSE IF b >= 300 THEN "medium" ELSE "low"

\* C12: every drone card of the fleet grid has the battery class of its
\* battery value: high above 60, medium from 30 to 60, low below 30.
C12_BatteryClassThresholds ==
  \A i \in DOMAIN dom.fleetGrid :
     dom.fleetGrid[i].batteryClass = BatteryClass(dom.fleetGrid[i].width)

\* The step is a successful login or a logout: the login screen goes or
\* comes back.
ViewSwitched == last'.op = "logout" \/ (last'.op = "login" /\ ~last'.failed)

\* C13: in a sequence of failed login attempts, a visible error message is
\* hidden only when 5 s have passed since it was shown: every message
\* starts a 5 s timeout of its own, so a step that hides a visible message
\* leaves no such timeout pending.
C13_ErrorVisibleFiveSeconds ==
  [][(~dom.errorHidden /\ dom'.errorHidden /\ ~ViewSwitched)
       => ~(\E t \in BagToSet(tasks') : t.k = "tErrorHide")]_vars

\* C14: while the session is LoggedOut no chart widget is live and the chart
\* registry is empty: logout destroys every chart and none is created
\* before the next login.
C14_NoChartWhileLoggedOut ==
  LoggedOut => (DOMAIN liveCharts = {} /\ charts = NoCharts)

\* The kinds of call or timeout the initializer of page p starts: three
\* requests for the dashboard, one for the fleet and the inventory page, a
\* chart timeout for analytics and maintenance; the tracking initializer
\* registers its timer at once, and an id that is no page has none.
InitializerOf(p) ==
  CASE p = "dashboard"   -> {"dash"}
    [] p = "fleet"       -> {"fleetPage"}
    [] p = "analytics"   -> {"tAnalytics"}
    [] p = "inventory"   -> {"inventoryPage"}
    [] p = "maintenance" -> {"tMaintenance"}
    [] OTHER             -> {}

\* What a step that runs initializePage(p) has started: the tasks pending
\* after it apart from those pending before, the fired timeout taken out.
StartedBy(p) ==
  tasks' (-) (tasks (-) SetToBag({[Task("tInitPage") EXCEPT !.page = p]}))

\* C15: showPage(pageId) for a page leaves that page and its nav item the
\* only active ones, and the initializePage(pageId) it schedules runs the
\* initializer of that page and no other.  For an id that is no page
\* initializePage starts no request, registers no timer and creates no
\* chart.
C15_ShowPageRunsOneInitializer ==
  [][/\ (last'.op = "showPage" /\ last'.u \in Pages) =>
          /\ dom'.activePage = {last'.u}
          /\ dom'.activeNav = {last'.u}
          /\ CopiesIn([Task("tInitPage") EXCEPT !.page = last'.u], tasks')
               = CopiesIn([Task("tInitPage") EXCEPT !.page = last'.u], tasks) + 1
     /\ last'.op = "initializePage" =>
          /\ { t.k : t \in BagToSet(StartedBy(last'.u)) } = InitializerOf(last'.u)
          /\ BagCardinality(StartedBy(last'.u)) <= 1
          /\ charts' = charts /\ liveCharts' = liveCharts /\ appData' = appData
          /\ IF last'.u = "tracking"
               THEN { h \in DOMAIN timers' : timers'[h] = "tracking" }
                      = {updateIntervals'.tracking}
               ELSE timers' = timers /\ updateIntervals' = updateIntervals]_vars

\* C15, its case: initializePage has run for an id that is no page, after a
\* showPage that found no page and no nav item to activate.
C15_Witness ==
  /\ last.op = "initializePage" /\ last.u = UnknownPage
  /\ dom.activePage = {} /\ dom.activeNav = {}
  /\ tasks = EmptyBag

\* The status is a success status.
SuccessStatus(response) == response.status >= 200 /\ response.status <= 299

\* The cache entry the wrapper of fetch f writes.
EntryOf(f) ==
  CASE f = "kpi" -> "kpi_data" [] f = "fleet" -> "drone_fleet"
    [] OTHER -> "medical_supplies"

\* C16, as the spec states it: the call of apiRequest whose response has
\* arrived has failed exactly when the status is not a success status.
C16_ReturnsOnEverySuccessStatus ==
  last.response # NoResponse =>
    (last.failed <=> ~SuccessStatus(last.response))

\* C16, amended: apiRequest returns the parsed body exactly when the status
\* is a success status and the body is JSON, and fails for every other
\* status, for a request that did not complete and for a body that is not
\* JSON.  It changes no state itself: a step in which it fails leaves the
\* cache as it is, a step in which it returns changes the cache in the
\* entry of the calling wrapper only, and the session, the timer registry
\* and the chart registry are the same after a step in which only it and
\* the wrapper run.
C16_ApiRequestClassifies ==
  [][last'.response # NoResponse =>
       /\ last'.failed <=>
            ~(SuccessStatus(last'.response) /\ last'.response.body = "json")
       /\ last'.failed => appData' = appData
       /\ \A k \in DOMAIN appData : k # EntryOf(last'.u) => appData'[k] = appData[k]
       /\ currentUser' = currentUser
       /\ last'.op \in {"fetch", "initializeFleetManagement", "initializeInventory"} =>
            /\ timers' = timers /\ updateIntervals' = updateIntervals
            /\ charts' = charts /\ liveCharts' = liveCharts]_vars

\* C16, its case: the fleet page's request was answered with a success
\* status and a body that is not JSON; apiRequest has failed and the grid
\* shows the cached fleet, which is not empty.
C16_Witness ==
  /\ last.op = "initializeFleetManagement"
  /\ last.response = [status |-> 200, body |-> "html"]
  /\ last.failed
  /\ dom.fleetGrid # << >>

\* The refresh cycles (calls of updateDashboardData) that a step ends or
\* carries on, and what a step leaves of them or starts.
CyclesTaken == { t \in BagToSet(tasks (-) tasks') : t.k = "update" }
CyclesLeft == { t \in BagToSet(tasks' (-) tasks) : t.k = "update" }

\* The step destroys the fleet-status chart or schedules its re-rendering.
ChartRerendered ==
  \/ liveCharts' # liveCharts
  \/ CopiesIn(Task("tFleetChart"), tasks') > CopiesIn(Task("tFleetChart"), tasks)

\* C17: a dashboard tick issues the KPI and the fleet request together, and
\* a step of a refresh cycle re-renders the fleet-status chart only when it
\* settles the last pending request of that cycle: the cycle had one
\* request pending, and none after the step.
C17_ChartAfterBothSettle ==
  [][/\ last'.op = "dashboardTick" =>
          \E t \in CyclesLeft : t.kpi = "pending" /\ t.fleet = "pending"
     /\ (CyclesTaken # {} /\ last'.op # "logout" /\ ChartRerendered) =>
          /\ \A t \in CyclesTaken :
               Cardinality({ f \in {"kpi", "fleet"} : t[f] = "pending" }) = 1
          /\ CyclesLeft = {}]_vars

\* C17, its case: a refresh cycle in which a request failed has ended, the
\* registered fleet-status chart is destroyed and its re-rendering is
\* scheduled.
C17_Witness ==
  /\ last.op = "updateDashboardData" /\ last.anyFailed
  /\ charts.fleetStatus # 0 /\ charts.fleetStatus \notin DOMAIN liveCharts
  /\ Task("tFleetChart") \in Pending

\* C18: at most one live chart widget exists per canvas.
C18_OneLiveChartPerCanvas ==
  \A h, g \in DOMAIN liveCharts : liveCharts[h] = liveCharts[g] => h = g

\* C18, its case: initializeFleetStatusChart has run with a chart in the
\* registry, and the chart it created is the only live one on the canvas.
C18_Witness ==
  /\ last.op = "initializeFleetStatusChart" /\ last.u = "replaced"
  /\ charts.fleetStatus \in DOMAIN liveCharts
  /\ { h \in DOMAIN liveCharts : liveCharts[h] = "fleet-status-chart" }
       = {charts.fleetStatus}

\* C19: a tracking tick advances every flight: the new progress is not
\* below the one before, exceeds it by at most 5 points and is at most 100
\* (widths are in tenths of a percent), and the label and the ETA are
\* computed from it, the ETA being max(1, round((100 - progress) * 0.2)).
C19_TrackingTickAdvances ==
  [][last'.op = "trackingTick" =>
       \A i \in DOMAIN dom.flights :
          /\ dom'.flights[i].width >= dom.flights[i].width
          /\ dom'.flights[i].width <= dom.flights[i].width + 50
          /\ dom'.flights[i].width <= 1000
          /\ dom'.flights[i].width # dom.flights[i].width =>
               /\ dom'.flights[i].label = Round10(dom'.flights[i].width)
               /\ dom'.flights[i].eta =
                    Max(1, ((1000 - dom'.flights[i].width) + 25) \div 50)]_vars


\* C20: a step that runs the local simulation leaves the displayed success
\* rate in [90,100] and the displayed delivery time in [8,20]; it lowers
\* the battery of an Active drone by at most 2 and not below 20, raises the
\* battery of a Charging drone by at most 5 and not above 100, leaves every
\* other battery as it was, and keeps a battery of [0,100] in [0,100].
C20_SimulationStaysInRange ==
  [][last'.simulated =>
       /\ dom'.kpiShown[1].success_rate \in 900..1000
       /\ dom'.kpiShown[1].avg_delivery_time \in 80..200
       /\ (last'.u = "kpi" \/ last'.failed) =>
            /\ DOMAIN appData'.drone_fleet = DOMAIN appData.drone_fleet
            /\ \A i \in DOMAIN appData.drone_fleet :
                 LET old == appData.drone_fleet[i].battery
                     new == appData'.drone_fleet[i].battery
                 IN  /\ appData.drone_fleet[i].status = "Active" =>
                          /\ new <= old /\ new >= old - 20
                          /\ old >= 200 => new >= 200
                     /\ appData.drone_fleet[i].status = "Charging" =>
                          /\ new >= old /\ new <= old + 50
                          /\ old <= 1000 => new <= 1000
                     /\ appData.drone_fleet[i].status \notin {"Active", "Charging"} =>
                          new = old
                     /\ old \in 0..1000 => new \in 0..1000]_vars


\* C21: once the snap timeout of an activation has run and a rate shows its
\* formatted final string, no animation frame of that activation overwrites
\* it: the text keeps its unit and its number.
C21_FrameKeepsFinalString ==
  [][last'.op = "animationFrame" =>
       \A el \in Rates :
          (SnapDone(last'.u, el) /\ el \in dom.kpiUnits) =>
             /\ el \in dom'.kpiUnits
             /\ Shown(dom')[el] = Shown(dom)[el]]_vars


\* C22: while the session is LoggedOut no page initializer runs and no
\* request to a data endpoint is issued: neither the 50 ms timeout of
\* showPage runs initializePage nor does a refresh tick run.
C22_SessionGatesInitializers ==
  LoggedOut => last.op \notin {"initializePage", "dashboardTick"}


\* The keys whose registry entry is a chart that has been destroyed.
DestroyedInRegistry ==
  { c \in ChartKeys : charts[c] # 0 /\ charts[c] \notin DOMAIN liveCharts }

\* The keys on whose registry entry the step with event e calls destroy()
\* or resize().
OperatedOn(e) ==
  CASE e.op = "initializeFleetStatusChart" -> {"fleetStatus"}
    [] e.op = "updateDashboardData" /\ ~e.simulated -> {"fleetStatus"}
    [] e.op \in {"logout", "resize"} -> ChartKeys
    [] OTHER -> {}

\* C23: no step calls destroy() or resize() on a chart that has been
\* destroyed: the registry entries a step operates on are live charts.
C23_NoUseAfterDestroy ==
  [][OperatedOn(last') \cap DestroyedInRegistry = {}]_vars


\* C24: between the steps of the handlers the main view is visible exactly
\* when there is a session record, and the login screen exactly when there
\* is none.
C24_ViewMatchesSession ==
  /\ ~dom.mainHidden <=> ~LoggedOut
  /\ ~dom.loginHidden <=> LoggedOut

\* C24, its case: the response of a login arrives after a logout has
\* overtaken it and opens a session.
C24_Witness ==
  /\ last.op = "login" /\ last.stale /\ ~last.failed
  /\ ~LoggedOut /\ ~dom.mainHidden /\ dom.loginHidden

====
